---- MODULE Spec2Model ----
(***************************************************************************)
(* Model of Task1/process_design.py: the 32-bit signed conversion pipeline *)
(*   parse_decimal_signed -> detect_overflow / saturate_int32              *)
(*     -> int32_to_bin32 -> bin32_to_hex8 -> format selection -> Result    *)
(* and of the decoder bin32_to_int32 as Task1/test.py applies it to the    *)
(* bin32 field of a returned Result.                                       *)
(*                                                                         *)
(* Python's int is an unbounded integer.  The values of the program reach  *)
(* 2^32 and beyond, so an int is modelled as a sign and a magnitude, the   *)
(* magnitude a little-endian sequence of limbs in base LimbBase without    *)
(* leading zero limbs.  A Python str is modelled as a sequence of          *)
(* characters, each character a TLA+ string.                               *)
(***************************************************************************)
EXTENDS Integers, Sequences, FiniteSets, TLC

(***************************************************************************)
(* Unbounded integers (Python int)                                         *)
(***************************************************************************)

\* bits of one limb of a magnitude
LimbBits == 16

LimbBase == 2^LimbBits

RECURSIVE Strip(_)
Strip(m) ==
  IF m = <<>> THEN <<>>
  ELSE IF m[Len(m)] = 0 THEN Strip(SubSeq(m, 1, Len(m) - 1))
  ELSE m

MkInt(neg, m) ==
  LET s == Strip(m) IN [neg |-> (neg /\ s # <<>>), mag |-> s]

Zero == [neg |-> FALSE, mag |-> <<>>]

\* an int literal of the source that is smaller than LimbBase
Small(n) == IF n = 0 THEN Zero ELSE [neg |-> FALSE, mag |-> <<n>>]

RECURSIVE CmpFrom(_, _, _)
CmpFrom(a, b, i) ==
  IF i = 0 THEN 0
  ELSE IF a[i] < b[i] THEN -1
  ELSE IF a[i] > b[i] THEN 1
  ELSE CmpFrom(a, b, i - 1)

\* -1, 0 or 1 as magnitude a is below, equal to or above magnitude b
CmpMag(a, b) ==
  IF Len(a) < Len(b) THEN -1
  ELSE IF Len(a) > Len(b) THEN 1
  ELSE CmpFrom(a, b, Len(a))

Limb(m, i) == IF i <= Len(m) THEN m[i] ELSE 0

RECURSIVE AddFrom(_, _, _, _)
AddFrom(a, b, i, carry) ==
  IF i > Len(a) /\ i > Len(b)
  THEN IF carry = 0 THEN <<>> ELSE <<carry>>
  ELSE LET t == Limb(a, i) + Limb(b, i) + carry
       IN  <<t % LimbBase>> \o AddFrom(a, b, i + 1, t \div LimbBase)

AddMag(a, b) == AddFrom(a, b, 1, 0)

RECURSIVE SubFrom(_, _, _, _)
SubFrom(a, b, i, borrow) ==
  IF i > Len(a) THEN <<>>
  ELSE LET t == a[i] - Limb(b, i) - borrow
       IN  IF t < 0
           THEN <<t + LimbBase>> \o SubFrom(a, b, i + 1, 1)
           ELSE <<t>> \o SubFrom(a, b, i + 1, 0)

\* a - b for magnitudes with a >= b
SubMag(a, b) == Strip(SubFrom(a, b, 1, 0))

RECURSIVE MulAddFrom(_, _, _, _)
MulAddFrom(m, k, i, carry) ==
  IF i > Len(m)
  THEN IF carry = 0 THEN <<>> ELSE <<carry>>
  ELSE LET t == m[i] * k + carry
       IN  <<t % LimbBase>> \o MulAddFrom(m, k, i + 1, t \div LimbBase)

\* m * k + c for a magnitude m and small k, c
MulAddSmall(m, k, c) == Strip(MulAddFrom(m, k, 1, c))

RECURSIVE ModFrom(_, _, _, _)
ModFrom(m, d, i, rem) ==
  IF i = 0 THEN rem
  ELSE ModFrom(m, d, i - 1, (rem * LimbBase + m[i]) % d)

\* m % d for a magnitude m and small d
ModSmall(m, d) == ModFrom(m, d, Len(m), 0)

RECURSIVE DivFrom(_, _, _, _)
DivFrom(m, d, i, rem) ==
  IF i = 0 THEN <<>>
  ELSE LET t == rem * LimbBase + m[i]
       IN  DivFrom(m, d, i - 1, t % d) \o <<t \div d>>

\* m // d for a magnitude m and small d
DivSmall(m, d) == Strip(DivFrom(m, d, Len(m), 0))

IntNeg(x) == MkInt(~x.neg, x.mag)

IntAdd(x, y) ==
  IF x.neg = y.neg THEN MkInt(x.neg, AddMag(x.mag, y.mag))
  ELSE IF CmpMag(x.mag, y.mag) >= 0 THEN MkInt(x.neg, SubMag(x.mag, y.mag))
  ELSE MkInt(y.neg, SubMag(y.mag, x.mag))

IntSub(x, y) == IntAdd(x, IntNeg(y))

\* x < y
IntLt(x, y) ==
  IF x.neg /\ ~y.neg THEN TRUE
  ELSE IF ~x.neg /\ y.neg THEN FALSE
  ELSE IF x.neg THEN CmpMag(x.mag, y.mag) = 1
  ELSE CmpMag(x.mag, y.mag) = -1

IntGt(x, y) == IntLt(y, x)

IntGe(x, y) == ~IntLt(x, y)

\* 2 ** n: bit n % LimbBits of limb n \div LimbBits
IntPow2(n) ==
  MkInt(FALSE, [i \in 1..(n \div LimbBits + 1) |->
                  IF i = n \div LimbBits + 1 THEN 2^(n % LimbBits) ELSE 0])

MIN_INT32 == IntNeg(IntPow2(31))
MAX_INT32 == IntSub(IntPow2(31), Small(1))
MOD32 == IntPow2(32)


(***************************************************************************)
(* Characters and strings (Python str)                                     *)
(***************************************************************************)

\* characters str.strip() removes (a sample of Python's whitespace)
Whitespace == {" ", "\t", "\n", "\r"}

AsciiDigits == <<"0", "1", "2", "3", "4", "5", "6", "7", "8", "9">>

\* ARABIC-INDIC DIGIT THREE: a non-ASCII character of Unicode category Nd,
\* which \d of a str pattern matches and int() reads as 3
ArabicThree == "U+0663"

\* the characters \d matches
IsDigit(c) == c = ArabicThree \/ \E i \in 1..10 : AsciiDigits[i] = c

DigitVal(c) ==
  IF c = ArabicThree THEN 3
  ELSE (CHOOSE i \in 1..10 : AsciiDigits[i] = c) - 1

UpperDigits ==
  <<"0", "1", "2", "3", "4", "5", "6", "7", "8", "9", "A", "B", "C", "D", "E", "F">>

RECURSIVE LStrip(_)
LStrip(s) ==
  IF s # <<>> /\ s[1] \in Whitespace THEN LStrip(Tail(s)) ELSE s

RECURSIVE RStrip(_)
RStrip(s) ==
  IF s # <<>> /\ s[Len(s)] \in Whitespace
  THEN RStrip(SubSeq(s, 1, Len(s) - 1))
  ELSE s

\* s.strip()
StrStrip(s) == RStrip(LStrip(s))

\* [+-]?\d+ matches the whole of s
SignedDigits(s) ==
  LET first == IF s # <<>> /\ s[1] \in {"+", "-"} THEN 2 ELSE 1
  IN  /\ first <= Len(s)
      /\ \A i \in first..Len(s) : IsDigit(s[i])

\* _DEC_PATTERN.match(s): ^ at the start, $ at the end of s or just before
\* a newline that ends s
DecPatternMatch(s) ==
  \/ SignedDigits(s)
  \/ /\ s # <<>>
     /\ s[Len(s)] = "\n"
     /\ SignedDigits(SubSeq(s, 1, Len(s) - 1))

RECURSIVE ParseMag(_, _, _)
\* the magnitude the digits of s denote in the given base, after acc; the
\* test on next makes TLC compute it before the recursion goes on
ParseMag(s, base, acc) ==
  IF s = <<>> THEN acc
  ELSE LET next == MulAddSmall(acc, base, DigitVal(s[1]))
       IN  IF Len(next) >= 0 THEN ParseMag(Tail(s), base, next) ELSE next

\* int(s, base) for a text of an optional sign and digits, whitespace around
\* it ignored
IntOfStr(s, base) ==
  LET t == StrStrip(s)
      neg == t # <<>> /\ t[1] = "-"
      body == IF t # <<>> /\ t[1] \in {"+", "-"} THEN Tail(t) ELSE t
  IN  MkInt(neg, ParseMag(body, base, <<>>))

RECURSIVE ToDigits(_, _)
\* the digits of a magnitude in the given base, most significant first
ToDigits(m, base) ==
  IF m = <<>> THEN <<>>
  ELSE ToDigits(DivSmall(m, base), base) \o <<UpperDigits[ModSmall(m, base) + 1]>>

RECURSIVE ZeroPad(_, _)
ZeroPad(s, width) ==
  IF Len(s) >= width THEN s ELSE ZeroPad(<<"0">> \o s, width)

\* format(u, "0<width>b"), format(u, "0<width>X") and str(u) (width 0):
\* sign first, then the digits left-padded with zeros to the width
FormatInt(u, base, width) ==
  LET d == IF u.mag = <<>> THEN <<"0">> ELSE ToDigits(u.mag, base)
  IN  IF u.neg THEN <<"-">> \o ZeroPad(d, width - 1) ELSE ZeroPad(d, width)

Str(u) == FormatInt(u, 10, 0)

(***************************************************************************)
(* The functions of process_design.py.  A function that can raise returns  *)
(* [raised |-> TRUE, err |-> kind] or [raised |-> FALSE, val |-> value].   *)
(***************************************************************************)

Raise(kind) == [raised |-> TRUE, err |-> kind]
Return(v) == [raised |-> FALSE, val |-> v]

\* mutant: the text is not stripped before it is matched
parse_decimal_signed_NoStrip(s0) ==
  IF s0 = <<>> THEN Raise("EmptyInput")
  ELSE IF ~DecPatternMatch(s0) THEN Raise("InvalidDecimal")
  ELSE Return(IntOfStr(s0, 10))

\* the argument is a str: the test for None is not modelled
parse_decimal_signed(s0) ==
  LET s == StrStrip(s0)
  IN  IF s = <<>> THEN Raise("EmptyInput")
      ELSE IF ~DecPatternMatch(s) THEN Raise("InvalidDecimal")
      ELSE Return(IntOfStr(s, 10))

\* mutant: the bounds themselves count as overflow
detect_overflow_OffByOne(x) ==
  IF ~IntGt(x, MIN_INT32) \/ ~IntLt(x, MAX_INT32) THEN 1 ELSE 0

detect_overflow(x) ==
  IF IntLt(x, MIN_INT32) \/ IntGt(x, MAX_INT32) THEN 1 ELSE 0

\* mutant: no clamp at the lower bound
saturate_int32_NoLow(x) ==
  IF IntGt(x, MAX_INT32) THEN <<MAX_INT32, 1>> ELSE <<x, 0>>

\* mutant: the lower clamp does not set the flag
saturate_int32_FlagLost(x) ==
  IF IntGt(x, MAX_INT32) THEN <<MAX_INT32, 1>>
  ELSE IF IntLt(x, MIN_INT32) THEN <<MIN_INT32, 0>>
  ELSE <<x, 0>>

\* <<clamped value, saturated flag>>
saturate_int32(x) ==
  IF IntGt(x, MAX_INT32) THEN <<MAX_INT32, 1>>
  ELSE IF IntLt(x, MIN_INT32) THEN <<MIN_INT32, 1>>
  ELSE <<x, 0>>

\* mutant: a negative value is not mapped to its unsigned pattern
int32_to_bin32_NoWrap(xs) == FormatInt(xs, 2, 32)

int32_to_bin32(xs) ==
  LET u == IF IntGe(xs, Zero) THEN xs ELSE IntAdd(MOD32, xs)
  IN  FormatInt(u, 2, 32)

\* len(bin32) != 32 or any(c not in "01" for c in bin32)
BadBin32(b) == Len(b) # 32 \/ \E i \in 1..Len(b) : b[i] \notin {"0", "1"}

\* mutant: the hexadecimal digits are not padded to 8
bin32_to_hex8_NoPad(b, prefix_0x) ==
  IF BadBin32(b) THEN Raise("MalformedBin32")
  ELSE LET u == IntOfStr(b, 2)
           hx == FormatInt(u, 16, 0)
       IN  Return(IF prefix_0x THEN <<"0", "x">> \o hx ELSE hx)

bin32_to_hex8(b, prefix_0x) ==
  IF BadBin32(b) THEN Raise("MalformedBin32")
  ELSE LET u == IntOfStr(b, 2)
           hx == FormatInt(u, 16, 8)
       IN  Return(IF prefix_0x THEN <<"0", "x">> \o hx ELSE hx)

\* mutant: the sign bit is not interpreted
bin32_to_int32_Unsigned(b) ==
  IF BadBin32(b) THEN Raise("MalformedBin32")
  ELSE Return(IntOfStr(b, 2))

bin32_to_int32(b) ==
  IF BadBin32(b) THEN Raise("MalformedBin32")
  ELSE LET u == IntOfStr(b, 2)
       IN  Return(IF b[1] = "0" THEN u ELSE IntSub(u, MOD32))


(***************************************************************************)
(* Inputs                                                                  *)
(***************************************************************************)

\* longest run of free characters appended to a prefix
MaxTail == 2

TailChars == {" ", "\n", "+", "-", "0", "7", "8", "9", "a", ArabicThree}

\* prefixes that put the texts next to 2^31, -2^31, 2^32 and far outside
Prefixes ==
  { <<>>,
    <<"2", "1", "4", "7", "4", "8", "3", "6", "4">>,
    <<"-", "2", "1", "4", "7", "4", "8", "3", "6", "4">>,
    <<"+", "4", "2", "9", "4", "9", "6", "7", "2", "9">>,
    <<" ", "-", "9", "9", "9", "9", "9", "9", "9", "9", "9", "9", "9", "9">> }

Tails == UNION { [1..n -> TailChars] : n \in 0..MaxTail }

\* the texts of the test suite and of the documented parser cases
Examples ==
  { <<"1", "2", "3">>, <<"-", "1", "2", "3">>, <<"5">>, <<"-", "5">>, <<"-", "1">>,
    <<"1", "2", "a">>, <<"1", ".", "5">>, <<"+", "+", "3">>, <<"0", "x", "1", "0">>,
    <<"1", "_", "2">>, <<"\t", "4", "2", "\r", "\n">>, <<"1", " ", "2">>,
    <<"-", "2", "1", "4", "7", "4", "8", "3", "6", "4", "8">>,
    <<"2", "1", "4", "7", "4", "8", "3", "6", "4", "7">> }

Texts == { p \o t : p \in Prefixes, t \in Tails } \cup Examples

Formats == {"DEC", "BIN", "HEX"}

\* the selectors a caller passes: the three formats and two others
Selectors == Formats \cup {"OCT", "dec"}

(***************************************************************************)
(* State: one call convert(x_str, fmt, hex_prefix), its local variables,   *)
(* and the check test.py makes on the Result it returns.                   *)
(***************************************************************************)

VARIABLES x_str, fmt, hex_prefix, pc, x, overflow, x_sat, saturated, bin32,
          hex8, value_out, err, decoded

vars == <<x_str, fmt, hex_prefix, pc, x, overflow, x_sat, saturated, bin32,
          hex8, value_out, err, decoded>>

Init ==
  /\ x_str \in Texts
  /\ fmt \in Selectors
  /\ hex_prefix \in BOOLEAN
  /\ pc = "parse"
  /\ x = Zero
  /\ overflow = 0
  /\ x_sat = Zero
  /\ saturated = 0
  /\ bin32 = <<>>
  /\ hex8 = <<>>
  /\ value_out = <<>>
  /\ err = "none"
  /\ decoded = Zero

\* x = parse_decimal_signed(x_str)
Parse ==
  /\ pc = "parse"
  /\ LET r == parse_decimal_signed(x_str)
     IN  IF r.raised
         THEN pc' = "raised" /\ err' = r.err /\ x' = x
         ELSE pc' = "classify" /\ err' = err /\ x' = r.val
  /\ UNCHANGED <<x_str, fmt, hex_prefix, overflow, x_sat, saturated, bin32,
                 hex8, value_out, decoded>>

\* overflow = detect_overflow(x); x_sat, saturated = saturate_int32(x)
Classify ==
  /\ pc = "classify"
  /\ overflow' = detect_overflow(x)
  /\ x_sat' = saturate_int32(x)[1]
  /\ saturated' = saturate_int32(x)[2]
  /\ pc' = "encode"
  /\ UNCHANGED <<x_str, fmt, hex_prefix, x, bin32, hex8, value_out, err, decoded>>

\* bin32 = int32_to_bin32(x_sat)
Encode ==
  /\ pc = "encode"
  /\ bin32' = int32_to_bin32(x_sat)
  /\ pc' = "render"
  /\ UNCHANGED <<x_str, fmt, hex_prefix, x, overflow, x_sat, saturated, hex8,
                 value_out, err, decoded>>

\* hex8 = bin32_to_hex8(bin32, prefix_0x=hex_prefix)
Render ==
  /\ pc = "render"
  /\ LET r == bin32_to_hex8(bin32, hex_prefix)
     IN  IF r.raised
         THEN pc' = "raised" /\ err' = r.err /\ hex8' = hex8
         ELSE pc' = "select" /\ err' = err /\ hex8' = r.val
  /\ UNCHANGED <<x_str, fmt, hex_prefix, x, overflow, x_sat, saturated, bin32,
                 value_out, decoded>>

\* mutant: DEC renders the parsed value instead of the clamped one
Select_Unclamped ==
  /\ pc = "select"
  /\ IF fmt = "DEC"
     THEN pc' = "done" /\ value_out' = Str(x) /\ err' = err
     ELSE IF fmt = "BIN"
     THEN pc' = "done" /\ value_out' = bin32 /\ err' = err
     ELSE IF fmt = "HEX"
     THEN pc' = "done" /\ value_out' = hex8 /\ err' = err
     ELSE pc' = "raised" /\ value_out' = value_out /\ err' = "UnknownFormat"
  /\ UNCHANGED <<x_str, fmt, hex_prefix, x, overflow, x_sat, saturated, bin32,
                 hex8, decoded>>

\* the if/elif chain on fmt and the return of the Result
Select ==
  /\ pc = "select"
  /\ IF fmt = "DEC"
     THEN pc' = "done" /\ value_out' = Str(x_sat) /\ err' = err
     ELSE IF fmt = "BIN"
     THEN pc' = "done" /\ value_out' = bin32 /\ err' = err
     ELSE IF fmt = "HEX"
     THEN pc' = "done" /\ value_out' = hex8 /\ err' = err
     ELSE pc' = "raised" /\ value_out' = value_out /\ err' = "UnknownFormat"
  /\ UNCHANGED <<x_str, fmt, hex_prefix, x, overflow, x_sat, saturated, bin32,
                 hex8, decoded>>

\* test.py: bin32_to_int32(r.bin32) on the Result r of convert
Decode ==
  /\ pc = "done"
  /\ LET r == bin32_to_int32(bin32)
     IN  IF r.raised
         THEN pc' = "raised" /\ err' = r.err /\ decoded' = decoded
         ELSE pc' = "decoded" /\ err' = err /\ decoded' = r.val
  /\ UNCHANGED <<x_str, fmt, hex_prefix, x, overflow, x_sat, saturated, bin32,
                 hex8, value_out>>

Next == Parse \/ Classify \/ Encode \/ Render \/ Select \/ Decode

Spec == Init /\ [][Next]_vars

TypeOK ==
  /\ pc \in {"parse", "classify", "encode", "render", "select", "done",
             "decoded", "raised"}
  /\ err \in {"none", "EmptyInput", "InvalidDecimal", "MalformedBin32",
              "UnknownFormat"}
  /\ overflow \in {0, 1}
  /\ saturated \in {0, 1}


(***************************************************************************)
(* Reference notions the properties are stated with.  They read the input  *)
(* text and the output strings directly, character by character, and use   *)
(* none of the conversions above.                                          *)
(***************************************************************************)

NotSpace(c) == c \notin Whitespace

\* a decimal digit: a character of Unicode category Nd
RefIsDigit(c) == c \in {"0", "1", "2", "3", "4", "5", "6", "7", "8", "9", ArabicThree}

\* t is whitespace, then at most one sign, then one or more decimal digits,
\* then whitespace
RefWellFormed(t) ==
  \E i, j \in 1..Len(t) :
    /\ i <= j
    /\ \A k \in 1..(i - 1) : t[k] \in Whitespace
    /\ \A k \in (j + 1)..Len(t) : t[k] \in Whitespace
    /\ LET f == IF t[i] \in {"+", "-"} THEN i + 1 ELSE i
       IN  f <= j /\ \A k \in f..j : RefIsDigit(t[k])

\* the digits of a well-formed text in ASCII, leading zeros removed
RefDigits(t) ==
  LET c == SelectSeq(t, NotSpace)
      d == IF c[1] \in {"+", "-"} THEN Tail(c) ELSE c
      a == [k \in 1..Len(d) |-> IF d[k] = ArabicThree THEN "3" ELSE d[k]]
      nz == {k \in 1..Len(d) : a[k] # "0"}
  IN  IF nz = {} THEN <<"0">>
      ELSE SubSeq(a, CHOOSE k \in nz : \A m \in nz : k <= m, Len(d))

\* the canonical decimal text of the integer a well-formed text denotes
RefText(t) ==
  IF SelectSeq(t, NotSpace)[1] = "-" /\ RefDigits(t) # <<"0">>
  THEN <<"-">> \o RefDigits(t)
  ELSE RefDigits(t)

RefOrd(c) == CHOOSE i \in 0..9 : AsciiDigits[i + 1] = c

\* a < b for canonical unsigned decimal texts
DigitsLt(a, b) ==
  \/ Len(a) < Len(b)
  \/ /\ Len(a) = Len(b)
     /\ \E k \in 1..Len(a) :
          /\ RefOrd(a[k]) < RefOrd(b[k])
          /\ \A m \in 1..(k - 1) : a[m] = b[m]

\* a < b for canonical signed decimal texts
DecLt(a, b) ==
  LET na == a[1] = "-"
      nb == b[1] = "-"
  IN  IF na /\ ~nb THEN TRUE
      ELSE IF ~na /\ nb THEN FALSE
      ELSE IF na THEN DigitsLt(Tail(b), Tail(a))
      ELSE DigitsLt(a, b)

\* 2^31 - 1 and -2^31 in decimal
MaxText == <<"2", "1", "4", "7", "4", "8", "3", "6", "4", "7">>
MinText == <<"-", "2", "1", "4", "7", "4", "8", "3", "6", "4", "8">>

TooHigh(t) == DecLt(MaxText, t)
TooLow(t) == DecLt(t, MinText)

IsUpperHex(c) == \E i \in 1..16 : UpperDigits[i] = c

HexOrd(c) == (CHOOSE i \in 1..16 : UpperDigits[i] = c) - 1

\* the unsigned number 8 hexadecimal digits denote: 4 digits to a limb
HexUnsigned(h) ==
  MkInt(FALSE,
        << ((HexOrd(h[5]) * 16 + HexOrd(h[6])) * 16 + HexOrd(h[7])) * 16 + HexOrd(h[8]),
           ((HexOrd(h[1]) * 16 + HexOrd(h[2])) * 16 + HexOrd(h[3])) * 16 + HexOrd(h[4]) >>)

\* an unsigned 32-bit number read as two's complement
Reinterpret(u) == IF HexOrd("8") * 4096 <= Limb(u.mag, 2) THEN IntSub(u, MOD32) ELSE u

\* the positions of the call
ParseFailed == pc = "raised" /\ err \in {"EmptyInput", "InvalidDecimal"}
Classified == pc \notin {"parse", "classify"} /\ ~ParseFailed
Returned == pc \in {"done", "decoded"}


(***************************************************************************)
(* Properties                                                              *)
(***************************************************************************)

\* C1: decoding the encoder's output gives the clamped value back:
\* bin32_to_int32(int32_to_bin32(v)) = v for every v in [-2^31, 2^31 - 1],
\* the boundary values included.
C1_RoundTrip == pc = "decoded" => decoded = x_sat

\* the round trip has run on the most negative value
C1_Witness == pc = "decoded" /\ decoded = x_sat /\ Str(x_sat) = MinText

\* C2: the clamped value is x itself when x is in [-2^31, 2^31 - 1], is
\* 2^31 - 1 when x is above it and -2^31 when x is below it; so x_sat always
\* lies in [-2^31, 2^31 - 1].
C2_Clamp ==
  Classified =>
    /\ TooHigh(Str(x)) => Str(x_sat) = MaxText
    /\ TooLow(Str(x)) => Str(x_sat) = MinText
    /\ (~TooHigh(Str(x)) /\ ~TooLow(Str(x))) => x_sat = x
    /\ ~TooHigh(Str(x_sat)) /\ ~TooLow(Str(x_sat))

\* a value below -2^31 has been clamped
C2_Witness == Classified /\ TooLow(Str(x)) /\ Str(x_sat) = MinText

\* C3: the overflow flag is 1 if and only if x < -2^31 or x > 2^31 - 1.
C3_Overflow ==
  Classified => (overflow = 1 <=> (TooLow(Str(x)) \/ TooHigh(Str(x))))

\* 2^31 has been classified as an overflow
C3_Witness ==
  /\ Classified
  /\ Str(x) = <<"2", "1", "4", "7", "4", "8", "3", "6", "4", "8">>
  /\ overflow = 1

\* C4: in every Result the saturated flag equals the overflow flag, and is 1
\* exactly when x_sat differs from x_input.
C4_Flags ==
  Returned => (saturated = overflow /\ (saturated = 1 <=> x_sat # x))

\* a Result with a clamped value has been returned
C4_Witness == Returned /\ saturated = 1 /\ overflow = 1 /\ x_sat # x

\* C5: a call with a selector outside {DEC, BIN, HEX} fails with the
\* unknown-selector error, for every input text, never with the
\* invalid-input error.
C5_SelectorFirst ==
  (fmt \notin Formats /\ pc = "raised") => err = "UnknownFormat"

\* C6: in every Result, for either setting of hex_prefix, hex8 is exactly 8
\* characters, each an uppercase hexadecimal digit.
C6_Hex8 ==
  Returned => (Len(hex8) = 8 /\ \A i \in 1..Len(hex8) : IsUpperHex(hex8[i]))

\* C7: parse_decimal_signed succeeds exactly on the texts that are, after
\* trimming whitespace, at most one sign and then one or more decimal digits,
\* and then returns the exact integer; every other text fails with the
\* invalid-input error.
C7_Parse ==
  pc # "parse" =>
    /\ RefWellFormed(x_str) <=> ~ParseFailed
    /\ RefWellFormed(x_str) => Str(x) = RefText(x_str)

\* a signed text far outside 32 bits has been parsed
C7_Witness ==
  /\ pc = "classify"
  /\ Len(x_str) > 12
  /\ RefWellFormed(x_str)
  /\ Str(x) = RefText(x_str)
  /\ x.neg

\* C8: value_out is, for DEC, the decimal string of the clamped value (not of
\* the parsed one), for BIN the bit pattern bin32, for HEX the string hex8,
\* with the 0x prefix exactly when hex_prefix is set.
C8_ValueOut ==
  Returned =>
    /\ fmt = "DEC" =>
         value_out = IF TooHigh(RefText(x_str)) THEN MaxText
                     ELSE IF TooLow(RefText(x_str)) THEN MinText
                     ELSE RefText(x_str)
    /\ fmt = "BIN" => value_out = bin32
    /\ fmt = "HEX" =>
         /\ value_out = hex8
         /\ hex_prefix => (Len(value_out) = 10 /\ SubSeq(value_out, 1, 2) = <<"0", "x">>)
         /\ ~hex_prefix => (Len(value_out) = 8 /\ IsUpperHex(value_out[2]))

\* DEC has rendered a clamped value
C8_Witness ==
  Returned /\ fmt = "DEC" /\ saturated = 1 /\ value_out = MaxText

\* C9: for a well-formed input and a valid selector, convert raises nothing
\* and the bin32 of its Result is 32 characters, each 0 or 1, the first
\* being 1 exactly when x_sat is negative; the malformed-bit-pattern error
\* is never raised.
C9_Bin32 ==
  /\ err # "MalformedBin32"
  /\ (RefWellFormed(x_str) /\ fmt \in Formats) =>
       /\ pc # "raised"
       /\ Returned =>
            /\ Len(bin32) = 32
            /\ \A i \in 1..Len(bin32) : bin32[i] \in {"0", "1"}
            /\ bin32[1] = "1" <=> IntLt(x_sat, Zero)

\* a Result for an overflowing negative input has been returned
C9_Witness ==
  Returned /\ overflow = 1 /\ IntLt(x_sat, Zero) /\ bin32[1] = "1" /\ Len(bin32) = 32

\* C10: without prefix, the hexadecimal rendering of encode(v) is the 8
\* uppercase zero-padded hex digits of the unsigned value (v if v >= 0, else
\* v + 2^32), and reading them back as an unsigned 32-bit number
\* reinterpreted as two's complement yields v.
C10_HexRoundTrip ==
  (Returned /\ ~hex_prefix) =>
    /\ Len(hex8) = 8
    /\ \A i \in 1..Len(hex8) : IsUpperHex(hex8[i])
    /\ HexUnsigned(hex8) = IF IntLt(x_sat, Zero) THEN IntAdd(x_sat, MOD32) ELSE x_sat
    /\ Reinterpret(HexUnsigned(hex8)) = x_sat

\* -123 has been rendered as FFFFFF85
C10_Witness ==
  /\ Returned
  /\ ~hex_prefix
  /\ Str(x_sat) = <<"-", "1", "2", "3">>
  /\ hex8 = <<"F", "F", "F", "F", "F", "F", "8", "5">>

====
